---- MODULE Spec2Model ----
(***************************************************************************)
(* Model of cmi, the CurseForge modpack installer (src/src/curse.rs,       *)
(* src/src/util.rs): CurseModpack::install_to, CurseFileInfo::download,    *)
(* CurseModpack::copy_overrides and sanitize_zip_filename.                 *)
(*                                                                         *)
(* Paths.  A string is a sequence of one-character strings; "NUL" stands   *)
(* for the character '\0'.  Path parsing follows std::path on a Unix       *)
(* build: '/' is the only separator, there are no Prefix components.       *)
(* The file system is a set of directories and a map from files to their   *)
(* content, both keyed by the resolved (canonical) path, a sequence of     *)
(* names from the file-system root.  A path with ".." components is        *)
(* resolved the way the kernel resolves it: component by component, every  *)
(* intermediate component having to be an existing directory.  There are   *)
(* no symbolic links and nothing is ever deleted.                          *)
(***************************************************************************)
EXTENDS Integers, Sequences, FiniteSets, TLC

\* ------------------------------------------------------------------ bounds
MaxEntries == 2     \* archive entries besides manifest.json
MaxFiles   == 2     \* resolved files in the API response
MaxRuns    == 2     \* install_to runs against the same target
NumCpus    == 2     \* num_cpus::get(), the limit of for_each_concurrent
MaxSanLen  == 7     \* length of the file names given to sanitize_zip_filename
MaxManifestFiles == 3  \* manifest.files when the batch request is looked at alone
BodyChunks == 2     \* write calls tokio::io::copy needs for a body
MaxNameLen == 5     \* length of the file names whose destination is derived alone

\* ------------------------------------------------------- strings and paths
None == "None"

NormalC(name) == [kind |-> "Normal", name |-> name]
ParentDirC    == [kind |-> "ParentDir", name |-> <<>>]
CurDirC       == [kind |-> "CurDir", name |-> <<>>]
RootDirC      == [kind |-> "RootDir", name |-> <<>>]

Front(s) == SubSeq(s, 1, Len(s) - 1)
Last(s)  == s[Len(s)]

\* str::ends_with / str::contains on character sequences
EndsWith(s, suffix) ==
    /\ Len(s) >= Len(suffix)
    /\ SubSeq(s, Len(s) - Len(suffix) + 1, Len(s)) = suffix

Contains(s, ch) == \E i \in 1..Len(s) : s[i] = ch

\* the pieces of s between the separators '/', empty pieces included
RECURSIVE SplitAcc(_, _, _)
SplitAcc(s, cur, acc) ==
    IF s = <<>> THEN Append(acc, cur)
    ELSE IF Head(s) = "/" THEN SplitAcc(Tail(s), <<>>, Append(acc, cur))
    ELSE SplitAcc(Tail(s), Append(cur, Head(s)), acc)

Split(s) == SplitAcc(s, <<>>, <<>>)

\* the component a non-empty piece stands for
PieceComponent(piece) ==
    IF piece = <<".", ".">> THEN ParentDirC
    ELSE IF piece = <<".">> THEN CurDirC
    ELSE NormalC(piece)

\* the components of the pieces after the first: empty and "." pieces vanish
RECURSIVE PiecesToComponents(_)
PiecesToComponents(pieces) ==
    IF pieces = <<>> THEN <<>>
    ELSE LET p == Head(pieces)
             rest == PiecesToComponents(Tail(pieces))
         IN  IF p = <<>> \/ p = <<".">> THEN rest
             ELSE <<PieceComponent(p)>> \o rest

\* Path::components() on Unix: a leading '/' is RootDir, repeated and
\* trailing separators vanish, "." is kept only as the very first component
\* of a relative path, ".." is ParentDir, everything else Normal.
Components(s) ==
    IF s = <<>> THEN <<>>
    ELSE IF Head(s) = "/"
         THEN <<RootDirC>> \o PiecesToComponents(Tail(Split(s)))
         ELSE LET ps == Split(s)
              IN  IF Head(ps) = <<".">>
                  THEN <<CurDirC>> \o PiecesToComponents(Tail(ps))
                  ELSE PiecesToComponents(ps)

\* ---------------------------------------------------- sanitize_zip_filename
\* One step of the depth walk: the new depth, or -1 when the walk returns
\* None (Prefix | RootDir, or checked_sub(1) on depth 0).
DepthStepSaturating(c, depth) ==
    CASE c.kind = "RootDir"   -> -1
      [] c.kind = "ParentDir" -> IF depth = 0 THEN 0 ELSE depth - 1
      [] c.kind = "Normal"    -> depth + 1
      [] OTHER                -> depth

DepthStep(c, depth) ==
    CASE c.kind = "RootDir"   -> -1
      [] c.kind = "ParentDir" -> IF depth = 0 THEN -1 ELSE depth - 1
      [] c.kind = "Normal"    -> depth + 1
      [] OTHER                -> depth

RECURSIVE DepthWalk(_, _)
DepthWalk(comps, depth) ==
    IF comps = <<>> THEN TRUE
    ELSE LET d == DepthStep(Head(comps), depth)
         IN  IF d < 0 THEN FALSE ELSE DepthWalk(Tail(comps), d)

\* Some(path) is the file name itself, unchanged: Path::new(filename)
sanitize_zip_filename(filename) ==
    IF Contains(filename, "NUL") THEN [some |-> FALSE, path |-> <<>>]
    ELSE IF DepthWalk(Components(filename), 0)
         THEN [some |-> TRUE, path |-> filename]
         ELSE [some |-> FALSE, path |-> <<>>]

\* Path::starts_with and Path::strip_prefix compare whole components
StartsWith(comps, base) ==
    /\ Len(comps) >= Len(base)
    /\ SubSeq(comps, 1, Len(base)) = base

StripPrefix(comps, base) == SubSeq(comps, Len(base) + 1, Len(comps))

\* ------------------------------------------------------------- file system
\* Canonical paths are sequences of names from the root <<>>.
TargetName == <<"t">>
TargetPath == <<TargetName>>
TargetComps == <<NormalC(TargetName)>>

IsUnder(p, dir) == Len(p) > Len(dir) /\ SubSeq(p, 1, Len(dir)) = dir

\* The content of a file is the sequence of its chunks, a chunk being what
\* one write call of tokio::io::copy carries; every body and every entry is
\* BodyChunks chunks long.  A chunk is named by where its bytes come from:
\* the response of a download url or the archive entry of an index.  A Hole
\* is a range the file was extended over without being written.
Hole == [src |-> "hole", id |-> None]
EmptyContent == <<>>
Body(url)    == [k \in 1..BodyChunks |-> [src |-> "dl", id |-> url]]
EntryData(i) == [k \in 1..BodyChunks |-> [src |-> "zip", id |-> i]]
PartialEntryData(i) == <<[src |-> "zip", id |-> i]>>

\* Kernel path resolution from the root: every component but the last is
\* looked up in an existing directory; ".." of the root is the root.
RECURSIVE Walk(_, _, _)
Walk(cur, comps, D) ==
    IF comps = <<>> THEN [ok |-> TRUE, path |-> cur]
    ELSE IF cur \notin D THEN [ok |-> FALSE, path |-> cur]
    ELSE LET c == Head(comps)
         IN  CASE c.kind = "ParentDir" ->
                    Walk(IF cur = <<>> THEN cur ELSE Front(cur), Tail(comps), D)
               [] c.kind = "Normal" -> Walk(Append(cur, c.name), Tail(comps), D)
               [] OTHER -> Walk(cur, Tail(comps), D)

\* Path::exists and Path::is_dir (false on any error of stat)
PathExists(comps, D, F) ==
    LET w == Walk(<<>>, comps, D)
    IN  w.ok /\ (w.path \in D \/ w.path \in DOMAIN F)

PathIsDir(comps, D) ==
    LET w == Walk(<<>>, comps, D) IN w.ok /\ w.path \in D

\* mkdir(2)
Mkdir(comps, D, F) ==
    LET w == Walk(<<>>, Front(comps), D)
    IN  IF ~w.ok \/ w.path \notin D
        THEN [err |-> IF w.path \in DOMAIN F THEN "ENOTDIR" ELSE "ENOENT",
              dirs |-> D]
        ELSE IF Last(comps).kind # "Normal" THEN [err |-> "EEXIST", dirs |-> D]
        ELSE LET p == Append(w.path, Last(comps).name)
             IN  IF p \in D \/ p \in DOMAIN F
                 THEN [err |-> "EEXIST", dirs |-> D]
                 ELSE [err |-> "none", dirs |-> D \cup {p}]

\* std::fs::create_dir_all: mkdir, on NotFound create the lexical parent
\* (the path without its last component) and mkdir again; any other error
\* is forgiven when the path is a directory.
RECURSIVE CreateDirAll(_, _, _)
CreateDirAll(comps, D, F) ==
    IF comps = <<>> THEN [ok |-> TRUE, dirs |-> D]
    ELSE LET m == Mkdir(comps, D, F)
         IN  IF m.err = "none" THEN [ok |-> TRUE, dirs |-> m.dirs]
             ELSE IF m.err = "ENOENT"
             THEN LET p == CreateDirAll(Front(comps), D, F)
                  IN  IF ~p.ok THEN p
                      ELSE LET m2 == Mkdir(comps, p.dirs, F)
                           IN  IF m2.err = "none"
                               THEN [ok |-> TRUE, dirs |-> m2.dirs]
                               ELSE [ok |-> PathIsDir(comps, p.dirs),
                                     dirs |-> p.dirs]
             ELSE [ok |-> PathIsDir(comps, D), dirs |-> D]

\* dablenutil::tokio::async_create_dir_if_not_exists: nothing to do when the
\* path exists, create_dir_all otherwise
CreateDirIfNotExists(comps, D, F) ==
    IF PathExists(comps, D, F) THEN [ok |-> TRUE, dirs |-> D]
    ELSE CreateDirAll(comps, D, F)

\* tokio::fs::File::create: open(O_WRONLY | O_CREAT | O_TRUNC)
FileCreate(comps, D, F) ==
    LET w == IF comps = <<>> THEN [ok |-> FALSE, path |-> <<>>]
             ELSE Walk(<<>>, Front(comps), D)
    IN  IF ~w.ok \/ w.path \notin D \/ Last(comps).kind # "Normal"
        THEN [ok |-> FALSE, path |-> <<>>, files |-> F]
        ELSE LET p == Append(w.path, Last(comps).name)
             IN  IF p \in D THEN [ok |-> FALSE, path |-> <<>>, files |-> F]
                 ELSE [ok |-> TRUE, path |-> p,
                       files |-> [q \in DOMAIN F \cup {p} |->
                                    IF q = p THEN EmptyContent ELSE F[q]]]

\* writing through an open handle replaces the content of its file
WriteFile(F, p, content) == [F EXCEPT ![p] = content]

\* write(2) of the chunk c at the offset of chunk k: the file is extended
\* over a hole when it is shorter than the offset
WriteChunk(F, p, k, c) ==
    LET X == F[p]
        padded == IF Len(X) >= k THEN X
                  ELSE X \o [i \in 1..(k - Len(X)) |-> Hole]
    IN  [F EXCEPT ![p] = [padded EXCEPT ![k] = c]]

\* ------------------------------------------------------------------ inputs
Mods          == <<"m", "o", "d", "s">>
ResourcePacks == <<"r", "e", "s", "o", "u", "r", "c", "e", "p", "a", "c", "k", "s">>

\* <<"m">> stands for the entry "manifest.json" that load found, <<"o">> for
\* the manifest's overrides folder
ManifestName    == <<"m">>
OverridesFolder == <<"o">>

\* the entry names an archive is built from
EntryNames ==
    { <<"o", "/", "x">>,
      <<"o", "/", "a", "/", ".", ".", "/", "x">>,
      <<"o", "/", ".", ".", "/", "x">>,
      <<".", ".", "/", "x">>,
      <<"o", "/">> \o Mods \o <<"/", "a">> }

\* the CurseFileInfo values an API response is built from
InfoChoices ==
    { [file_name |-> <<"a">>, download_url |-> "url"],
      [file_name |-> <<"a">>, download_url |-> None],
      [file_name |-> <<"p", ".", "z", "i", "p">>, download_url |-> None] }

\* the manifest entry with this file id
CurseFile(id) == [file_id |-> id, project_id |-> id]

SeqsUpTo(S, n) == UNION { [1..k -> S] : k \in 0..n }

\* ------------------------------------------------------------------- state
VARIABLES
    dirs,        \* the directories of the file system (canonical paths)
    files,       \* the files of the file system: canonical path -> content
    entries,     \* self.archive.entries(): the entry names, in index order
    overrides,   \* self.manifest.overrides
    manifestFiles, \* self.manifest.files: Vec<CurseFile>
    infos,       \* the data of the API response: Vec<CurseFileInfo>
    run,         \* which install_to run this is
    phase,       \* where install_to is: init, resolve, download, overrides, done
    result,      \* what install_to returned: none, Ok, Err, Panic
    cause,       \* the step an Err or Panic came from
    tasks,       \* one download future per resolved file: pc, outcome, file handle
    ovIdx,       \* copy_overrides: the loop index i (1-based)
    ovCount,     \* copy_overrides: overrides_count
    batchReqs,   \* history: POST /v1/mods/files requests sent in this run
    batchBody,   \* history: the body of the last of them
    resp,        \* history: how the batch request of this run ended
    gets,        \* history: the resolved files an HTTP GET was sent for in this run
    dlCreated,   \* history: the files download created in this run
    ovWrites,    \* history: [idx, path] of the files copy_overrides created in this run
    dirs0,       \* history: dirs when this run began
    files0,      \* history: files when this run began
    sanIn,       \* the file name given to sanitize_zip_filename
    sanOut,      \* what sanitize_zip_filename returned for it
    rtIn,        \* a CurseFileInfo::file_name whose destination is derived
    rtOut        \* the parent_folder, file_name and path download derived from it

vars == <<dirs, files, entries, overrides, manifestFiles, infos, run, phase, result, cause,
          tasks, ovIdx, ovCount, batchReqs, batchBody, resp, gets, dlCreated, ovWrites,
          dirs0, files0, sanIn, sanOut, rtIn, rtOut>>

inputVars == <<entries, overrides, manifestFiles, infos>>
sanVars   == <<sanIn, sanOut, rtIn, rtOut>>
histVars  == <<batchReqs, batchBody, resp, gets, dlCreated, ovWrites, dirs0, files0>>

NoFiles == [q \in {} |-> EmptyContent]
NoSan   == [called |-> FALSE, some |-> FALSE, path |-> <<>>]
NoBody  == [fileIds |-> <<>>, sent |-> FALSE]
NoRoute == [called |-> FALSE, parent_folder |-> <<>>, file_name |-> <<>>,
            path |-> <<>>]

InitInstall ==
    /\ \E kind \in {"dir", "file", "missing"} :
          /\ dirs = IF kind = "dir" THEN {<<>>, TargetPath} ELSE {<<>>}
          /\ files = IF kind = "file"
                     THEN [q \in {TargetPath} |-> EmptyContent]
                     ELSE NoFiles
    /\ \E es \in SeqsUpTo(EntryNames, MaxEntries) : entries = <<ManifestName>> \o es
    /\ overrides = OverridesFolder
    /\ infos \in SeqsUpTo(InfoChoices, MaxFiles)
    /\ manifestFiles = [j \in 1..Len(infos) |-> CurseFile(j)]
    /\ run = 1
    /\ phase = "init"
    /\ result = "none"
    /\ cause = "none"
    /\ tasks = <<>>
    /\ ovIdx = 0
    /\ ovCount = 0
    /\ batchReqs = 0
    /\ batchBody = NoBody
    /\ resp = "none"
    /\ gets = {}
    /\ dlCreated = {}
    /\ ovWrites = {}
    /\ dirs0 = dirs
    /\ files0 = files

Init ==
    /\ InitInstall
    /\ sanIn = <<>>
    /\ sanOut = NoSan
    /\ rtIn = <<>>
    /\ rtOut = NoRoute

\* install_to returns: Err(e) or a panic from the named step, or Ok(())
Return(res, why) ==
    /\ phase' = "done"
    /\ result' = res
    /\ cause' = why

\* --------------------------------------------------------------- install_to
\* target.is_dir()
TargetIsDirUnchecked(D) == TRUE

TargetIsDir(D) == TargetPath \in D

\* What the batch response yields: send()?, error_for_status()?, json()?,
\* get("data") ... ok_or_else(..)? and from_value(..)? each return the error.
ParseResponseLenient(rs, data) ==
    IF rs \in {"ok", "NoData", "BadData"}
    THEN [ok |-> TRUE, file_infos |-> IF rs = "ok" THEN data ELSE <<>>]
    ELSE [ok |-> FALSE, file_infos |-> <<>>]

ParseResponse(rs, data) ==
    IF rs = "ok" THEN [ok |-> TRUE, file_infos |-> data]
    ELSE [ok |-> FALSE, file_infos |-> <<>>]

Responses == {"ok", "SendErr", "StatusErr", "NotJson", "NoData", "BadData"}

\* lines 174-181: the file ids of the manifest's files, in their order, are
\* the array "fileIds" of the request body
FileIdsReversed(mfiles) ==
    [j \in 1..Len(mfiles) |-> mfiles[Len(mfiles) + 1 - j].file_id]

FileIds(mfiles) == [j \in 1..Len(mfiles) |-> mfiles[j].file_id]

\* lines 162-196: the precondition, then the one POST of all file ids
InstallStart ==
    /\ phase = "init"
    /\ IF ~TargetIsDir(dirs)
       THEN /\ Return("Err", "precondition")
            /\ UNCHANGED <<batchReqs, batchBody>>
       ELSE /\ phase' = "resolve"
            /\ batchReqs' = batchReqs + 1
            /\ batchBody' = [fileIds |-> FileIds(manifestFiles), sent |-> TRUE]
            /\ UNCHANGED <<result, cause>>
    /\ UNCHANGED <<dirs, files, inputVars, run, tasks, ovIdx, ovCount, resp,
                   gets, dlCreated, ovWrites, dirs0, files0, sanVars>>

NewTask == [pc |-> "pending", outcome |-> "none", fh |-> <<>>, off |-> 0]

\* lines 192-206: the response arrives and is decoded, or install_to returns
ResolveResponse ==
    /\ phase = "resolve"
    /\ \E rs \in Responses :
          LET r == ParseResponse(rs, infos)
          IN  /\ resp' = rs
              /\ IF ~r.ok
                 THEN /\ Return("Err", "resolve")
                      /\ UNCHANGED tasks
                 ELSE /\ phase' = "download"
                      /\ tasks' = [j \in 1..Len(r.file_infos) |-> NewTask]
                      /\ UNCHANGED <<result, cause>>
    /\ UNCHANGED <<dirs, files, inputVars, run, ovIdx, ovCount, batchReqs, batchBody,
                   gets,
                   dlCreated, ovWrites, dirs0, files0, sanVars>>

\* ----------------------------------------------------- CurseFileInfo::download
IllegalChars == {"\\", "/", ":", "*", "?", "\"", "<", ">", "|"}

\* ILLEGAL_CHARS.replace_all(&self.file_name, "")
StripIllegal(name) == SelectSeq(name, LAMBDA c : c \notin IllegalChars)

\* lines 40-44
ParentFolder(name) ==
    IF EndsWith(name, <<"z", "i", "p">>) THEN ResourcePacks ELSE Mods

\* folder.join(parent_folder)
SubdirComps(info) == TargetComps \o <<NormalC(ParentFolder(info.file_name))>>

\* target.join(file_name): the stripped name holds no separator
DestComps(info) ==
    SubdirComps(info) \o PiecesToComponents(<<StripIllegal(info.file_name)>>)

\* line 48
HasDownloadUrlUnchecked(info) == TRUE

HasDownloadUrl(info) == info.download_url # None

\* line 53: path.exists() makes download return Ok(path) at once
AlreadyDownloadedNever(exists) == FALSE

AlreadyDownloaded(exists) == exists

\* lines 211-231: what the closure of for_each_concurrent does with the
\* Result of download: both arms only log
OnDownloadResultPropagate(outcome) ==
    IF outcome \in {"Ok", "OkExisting"} THEN "continue" ELSE "abort"

OnDownloadResult(outcome) == "continue"

InFlight == {j \in DOMAIN tasks : tasks[j].pc \notin {"pending", "done"}}

\* for_each_concurrent(num_cpus, ..) takes the next item of the stream only
\* while fewer than num_cpus futures are in flight
MayStartAlways(inFlight) == TRUE

MayStart(inFlight) == inFlight < NumCpus

\* task j steps to pc with the file handle fh
TaskSteps(j, pc, fh) ==
    /\ tasks' = [tasks EXCEPT ![j] = [pc |-> pc, outcome |-> "none", fh |-> fh,
                                      off |-> @.off]]
    /\ UNCHANGED <<phase, result, cause>>

\* download of task j returned `outcome` and the closure handled it
TaskEnds(j, outcome) ==
    /\ tasks' = [tasks EXCEPT ![j] = [pc |-> "done", outcome |-> outcome,
                                      fh |-> @.fh, off |-> @.off]]
    /\ IF OnDownloadResult(outcome) = "continue"
       THEN UNCHANGED <<phase, result, cause>>
       ELSE Return("Err", "download")

\* for_each_concurrent polls the next item of the stream when fewer than
\* num_cpus futures are in flight; the future runs to its first await
DlStart(j) ==
    /\ phase = "download"
    /\ tasks[j].pc = "pending"
    /\ \A k \in 1..(j - 1) : tasks[k].pc # "pending"
    /\ MayStart(Cardinality(InFlight))
    /\ TaskSteps(j, "mkdir", <<>>)
    /\ UNCHANGED <<dirs, files, inputVars, run, ovIdx, ovCount, histVars, sanVars>>

\* lines 46-55: the subdirectory is created (or that fails), then the url
\* and the destination are looked at
DlMkdir(j) ==
    /\ phase = "download"
    /\ tasks[j].pc = "mkdir"
    /\ LET info == infos[j]
           sub == SubdirComps(info)
           r == CreateDirIfNotExists(sub, dirs, files)
       IN  \E io \in {"ok", "fail"} :
             /\ io = "fail" => ~PathIsDir(sub, dirs)
             /\ IF io = "fail" \/ ~r.ok
                THEN /\ TaskEnds(j, "DirErr")
                     /\ UNCHANGED dirs
                ELSE /\ dirs' = r.dirs
                     /\ IF ~HasDownloadUrl(info) THEN TaskEnds(j, "NotFound")
                        ELSE IF AlreadyDownloaded(
                                    PathExists(DestComps(info), r.dirs, files))
                        THEN TaskEnds(j, "OkExisting")
                        ELSE TaskSteps(j, "create", <<>>)
    /\ UNCHANGED <<files, inputVars, run, ovIdx, ovCount, histVars, sanVars>>

\* lines 56-57: File::create returns, and on success the GET is sent
DlCreate(j) ==
    /\ phase = "download"
    /\ tasks[j].pc = "create"
    /\ LET r == FileCreate(DestComps(infos[j]), dirs, files)
       IN  \E io \in {"ok", "fail"} :
             IF io = "fail" \/ ~r.ok
             THEN /\ TaskEnds(j, "CreateErr")
                  /\ UNCHANGED <<files, gets, dlCreated>>
             ELSE /\ files' = r.files
                  /\ gets' = gets \cup {j}
                  /\ dlCreated' = dlCreated \cup {r.path}
                  /\ TaskSteps(j, "get", r.path)
    /\ UNCHANGED <<dirs, inputVars, run, ovIdx, ovCount, batchReqs, batchBody,
                   resp,
                   ovWrites, dirs0, files0, sanVars>>

\* lines 57-58: send()?, error_for_status()? and bytes()? each return a
\* reqwest::Error: the request failed, the status is no success, the body
\* broke off
DlResponse(j) ==
    /\ phase = "download"
    /\ tasks[j].pc = "get"
    /\ \E rs \in {"ok", "SendErr", "StatusErr", "BodyErr"} :
          IF rs = "ok" THEN TaskSteps(j, "write", tasks[j].fh)
          ELSE TaskEnds(j, "ReqwestErr")
    /\ UNCHANGED <<dirs, files, inputVars, run, ovIdx, ovCount, histVars, sanVars>>

\* line 59: tokio::io::copy writes the body through the handle chunk by
\* chunk, each write call at the offset of the handle, or a write fails;
\* after the last chunk download returns Ok(path)
DlWrite(j) ==
    /\ phase = "download"
    /\ tasks[j].pc = "write"
    /\ \E io \in {"ok", "fail"} :
          IF io = "fail"
          THEN /\ UNCHANGED files
               /\ TaskEnds(j, "WriteErr")
          ELSE LET k == tasks[j].off + 1
                   c == Body(infos[j].download_url)[k]
               IN  /\ files' = WriteChunk(files, tasks[j].fh, k, c)
                   /\ tasks' = [tasks EXCEPT ![j] =
                          [pc |-> IF k = BodyChunks THEN "done" ELSE "write",
                           outcome |-> IF k = BodyChunks THEN "Ok" ELSE "none",
                           fh |-> @.fh, off |-> k]]
                   /\ IF k < BodyChunks \/ OnDownloadResult("Ok") = "continue"
                      THEN UNCHANGED <<phase, result, cause>>
                      ELSE Return("Err", "download")
    /\ UNCHANGED <<dirs, inputVars, run, ovIdx, ovCount, histVars, sanVars>>

\* line 234: the future of for_each_concurrent is ready when the stream is
\* exhausted and every future it started has returned
StreamDrainedUnchecked(ts) == TRUE

StreamDrained(ts) == \A j \in DOMAIN ts : ts[j].pc = "done"

\* lines 234-235: for_each_concurrent returns once every future has
\* returned, and copy_overrides is entered
DownloadsReturn ==
    /\ phase = "download"
    /\ StreamDrained(tasks)
    /\ phase' = "overrides"
    /\ ovIdx' = 1
    /\ ovCount' = 0
    /\ UNCHANGED <<dirs, files, inputVars, run, result, cause, tasks, histVars,
                   sanVars>>

\* ------------------------------------------------- CurseModpack::copy_overrides
\* lines 135-136: unwrap_or_else(|| panic!(..))
OnSanitizedSkip(san) == IF san.some THEN "use" ELSE "skip"

OnSanitized(san) == IF san.some THEN "use" ELSE "panic"

\* lines 138-140: not under the overrides folder, or a directory entry
NotAnOverride(name, comps, ov) ==
    \/ ~StartsWith(comps, Components(ov))
    \/ EndsWith(name, <<"/">>)
    \/ EndsWith(name, <<"\\">>)

\* lines 144-145: target.join(file_name.strip_prefix(overrides))
TargetPathComps(comps, ov) == TargetComps \o StripPrefix(comps, Components(ov))

\* line 146: target_path.exists() skips the entry
SkipExisting(exists) == exists

\* the loop moves to the next entry
NextEntry ==
    /\ ovIdx' = ovIdx + 1
    /\ UNCHANGED <<phase, result, cause>>

\* lines 131-156: one iteration of the loop, from entry_reader(i) to the
\* end of tokio::io::copy; entry_reader(i) fails, or io names the later call
\* that fails, if one does
CopyEntry ==
    /\ phase = "overrides"
    /\ ovIdx <= Len(entries)
    /\ \/ /\ Return("Err", "overrides")
          /\ UNCHANGED <<dirs, files, ovIdx, ovCount, ovWrites>>
       \/ \E io \in {"ok", "mkdir", "create", "copy", "copyPartial"} :
             LET name == entries[ovIdx]
                 san == sanitize_zip_filename(name)
                 comps == Components(san.path)
                 tcomps == TargetPathComps(comps, overrides)
                 parent == Front(tcomps)
                 md == CreateDirIfNotExists(parent, dirs, files)
                 fc == FileCreate(tcomps, md.dirs, files)
                 here == [idx |-> ovIdx, path |-> fc.path]
             IN  IF OnSanitized(san) = "panic"
                 THEN /\ Return("Panic", "sanitize")
                      /\ UNCHANGED <<dirs, files, ovIdx, ovCount, ovWrites>>
                 ELSE IF \/ OnSanitized(san) = "skip"
                         \/ NotAnOverride(name, comps, overrides)
                         \/ SkipExisting(PathExists(tcomps, dirs, files))
                 THEN /\ NextEntry
                      /\ UNCHANGED <<dirs, files, ovCount, ovWrites>>
                 ELSE IF (io = "mkdir" /\ ~PathIsDir(parent, dirs)) \/ ~md.ok
                 THEN /\ Return("Err", "overrides")
                      /\ dirs' = IF io = "mkdir" THEN dirs ELSE md.dirs
                      /\ UNCHANGED <<files, ovIdx, ovCount, ovWrites>>
                 ELSE IF io = "create" \/ ~fc.ok
                 THEN /\ Return("Err", "overrides")
                      /\ dirs' = md.dirs
                      /\ UNCHANGED <<files, ovIdx, ovCount, ovWrites>>
                 ELSE /\ dirs' = md.dirs
                      /\ ovWrites' = ovWrites \cup {here}
                      /\ CASE io = "copy" ->
                                /\ files' = fc.files
                                /\ Return("Err", "overrides")
                                /\ UNCHANGED <<ovIdx, ovCount>>
                           [] io = "copyPartial" ->
                                /\ files' = WriteFile(fc.files, fc.path,
                                                      PartialEntryData(ovIdx))
                                /\ Return("Err", "overrides")
                                /\ UNCHANGED <<ovIdx, ovCount>>
                           [] OTHER ->
                                /\ files' = WriteFile(fc.files, fc.path,
                                                      EntryData(ovIdx))
                                /\ ovCount' = ovCount + 1
                                /\ NextEntry
    /\ UNCHANGED <<inputVars, run, tasks, batchReqs, batchBody, resp, gets,
                   dlCreated,
                   dirs0, files0, sanVars>>

\* lines 157-158 and 235-236: the loop is over, install_to returns Ok(())
CopyDone ==
    /\ phase = "overrides"
    /\ ovIdx > Len(entries)
    /\ Return("Ok", "none")
    /\ UNCHANGED <<dirs, files, inputVars, run, tasks, ovIdx, ovCount, histVars,
                   sanVars>>

\* the program is run again on the same archive and target, and the API
\* answers with the same data
Rerun ==
    /\ phase = "done"
    /\ result = "Ok"
    /\ run < MaxRuns
    /\ run' = run + 1
    /\ phase' = "init"
    /\ result' = "none"
    /\ cause' = "none"
    /\ tasks' = <<>>
    /\ ovIdx' = 0
    /\ ovCount' = 0
    /\ batchReqs' = 0
    /\ batchBody' = NoBody
    /\ resp' = "none"
    /\ gets' = {}
    /\ dlCreated' = {}
    /\ ovWrites' = {}
    /\ dirs0' = dirs
    /\ files0' = files
    /\ UNCHANGED <<dirs, files, inputVars, sanVars>>

Download ==
    \E j \in DOMAIN tasks :
        DlStart(j) \/ DlMkdir(j) \/ DlCreate(j) \/ DlResponse(j) \/ DlWrite(j)

\* the steps of one run of install_to
InstallNext ==
    \/ InstallStart
    \/ ResolveResponse
    \/ Download
    \/ DownloadsReturn
    \/ CopyEntry
    \/ CopyDone

Next ==
    \/ InstallNext
    \/ Rerun

Spec == Init /\ [][Next]_vars

\* ------------------------------------- sanitize_zip_filename on its own
SanChars == {"a", ".", "/", "NUL"}

InitSan ==
    /\ dirs = {<<>>}
    /\ files = NoFiles
    /\ entries = <<ManifestName>>
    /\ overrides = OverridesFolder
    /\ infos = <<>>
    /\ manifestFiles = <<>>
    /\ run = 1
    /\ phase = "idle"
    /\ result = "none"
    /\ cause = "none"
    /\ tasks = <<>>
    /\ ovIdx = 0
    /\ ovCount = 0
    /\ batchReqs = 0
    /\ batchBody = NoBody
    /\ resp = "none"
    /\ gets = {}
    /\ dlCreated = {}
    /\ ovWrites = {}
    /\ dirs0 = dirs
    /\ files0 = files
    /\ sanIn \in SeqsUpTo(SanChars, MaxSanLen)
    /\ sanOut = NoSan
    /\ rtIn = <<>>
    /\ rtOut = NoRoute

\* one call of sanitize_zip_filename(sanIn)
Sanitize ==
    /\ phase = "idle"
    /\ ~sanOut.called
    /\ LET r == sanitize_zip_filename(sanIn)
       IN  sanOut' = [called |-> TRUE, some |-> r.some, path |-> r.path]
    /\ UNCHANGED <<dirs, files, inputVars, run, phase, result, cause, tasks,
                   ovIdx, ovCount, histVars, sanIn, rtIn, rtOut>>

NextSan == Sanitize

SpecSan == InitSan /\ [][NextSan]_vars

\* ------------------------- the destination download derives, on its own
NameChars == {"a", ".", "z", "i", "p", ":", "/"}

InitRoute ==
    /\ dirs = {<<>>, TargetPath}
    /\ files = NoFiles
    /\ entries = <<ManifestName>>
    /\ overrides = OverridesFolder
    /\ infos = <<>>
    /\ manifestFiles = <<>>
    /\ run = 1
    /\ phase = "route"
    /\ result = "none"
    /\ cause = "none"
    /\ tasks = <<>>
    /\ ovIdx = 0
    /\ ovCount = 0
    /\ batchReqs = 0
    /\ batchBody = NoBody
    /\ resp = "none"
    /\ gets = {}
    /\ dlCreated = {}
    /\ ovWrites = {}
    /\ dirs0 = dirs
    /\ files0 = files
    /\ sanIn = <<>>
    /\ sanOut = NoSan
    /\ rtIn \in SeqsUpTo(NameChars, MaxNameLen)
    /\ rtOut = NoRoute

\* lines 40-52 of download for the file name rtIn: parent_folder, the
\* stripped file_name and path
Route ==
    /\ phase = "route"
    /\ ~rtOut.called
    /\ LET info == [file_name |-> rtIn, download_url |-> "url"]
       IN  rtOut' = [called |-> TRUE,
                     parent_folder |-> ParentFolder(rtIn),
                     file_name |-> StripIllegal(rtIn),
                     path |-> DestComps(info)]
    /\ UNCHANGED <<dirs, files, inputVars, run, phase, result, cause, tasks,
                   ovIdx, ovCount, histVars, sanIn, sanOut, rtIn>>

NextRoute == Route

SpecRoute == InitRoute /\ [][NextRoute]_vars

\* ------------------------- install_to with more files than num_cpus
\* the j-th file of the response: a name of its own, with a download url
FileOfItsOwn(j) == [file_name |-> [k \in 1..j |-> "a"], download_url |-> "url"]

InitCap ==
    /\ dirs = {<<>>, TargetPath}
    /\ files = NoFiles
    /\ entries = <<ManifestName>>
    /\ overrides = OverridesFolder
    /\ \E n \in 0..(NumCpus + 1) : infos = [j \in 1..n |-> FileOfItsOwn(j)]
    /\ manifestFiles = [j \in 1..Len(infos) |-> CurseFile(j)]
    /\ run = 1
    /\ phase = "init"
    /\ result = "none"
    /\ cause = "none"
    /\ tasks = <<>>
    /\ ovIdx = 0
    /\ ovCount = 0
    /\ batchReqs = 0
    /\ batchBody = NoBody
    /\ resp = "none"
    /\ gets = {}
    /\ dlCreated = {}
    /\ ovWrites = {}
    /\ dirs0 = dirs
    /\ files0 = files
    /\ sanIn = <<>>
    /\ sanOut = NoSan
    /\ rtIn = <<>>
    /\ rtOut = NoRoute

SpecCap == InitCap /\ [][Next]_vars

\* --------------- install_to with two files of one name and different urls
InitRace ==
    /\ dirs = {<<>>, TargetPath}
    /\ files = NoFiles
    /\ \E es \in SeqsUpTo({<<"o", "/", "x">>}, 1) : entries = <<ManifestName>> \o es
    /\ overrides = OverridesFolder
    /\ infos = << [file_name |-> <<"a">>, download_url |-> "url"],
                  [file_name |-> <<"a">>, download_url |-> "url2"] >>
    /\ manifestFiles = [j \in 1..Len(infos) |-> CurseFile(j)]
    /\ run = 1
    /\ phase = "init"
    /\ result = "none"
    /\ cause = "none"
    /\ tasks = <<>>
    /\ ovIdx = 0
    /\ ovCount = 0
    /\ batchReqs = 0
    /\ batchBody = NoBody
    /\ resp = "none"
    /\ gets = {}
    /\ dlCreated = {}
    /\ ovWrites = {}
    /\ dirs0 = dirs
    /\ files0 = files
    /\ sanIn = <<>>
    /\ sanOut = NoSan
    /\ rtIn = <<>>
    /\ rtOut = NoRoute

SpecRace == InitRace /\ [][Next]_vars

\* ------------------------------- install_to over manifests of any file ids
ManifestChoices == {CurseFile(1), CurseFile(2)}

InitBatch ==
    /\ \E kind \in {"dir", "file", "missing"} :
          /\ dirs = IF kind = "dir" THEN {<<>>, TargetPath} ELSE {<<>>}
          /\ files = IF kind = "file"
                     THEN [q \in {TargetPath} |-> EmptyContent]
                     ELSE NoFiles
    /\ \E es \in SeqsUpTo({<<"o", "/", "x">>}, 1) : entries = <<ManifestName>> \o es
    /\ overrides = OverridesFolder
    /\ manifestFiles \in SeqsUpTo(ManifestChoices, MaxManifestFiles)
    /\ infos \in SeqsUpTo({[file_name |-> <<"a">>, download_url |-> "url"]}, 1)
    /\ run = 1
    /\ phase = "init"
    /\ result = "none"
    /\ cause = "none"
    /\ tasks = <<>>
    /\ ovIdx = 0
    /\ ovCount = 0
    /\ batchReqs = 0
    /\ batchBody = NoBody
    /\ resp = "none"
    /\ gets = {}
    /\ dlCreated = {}
    /\ ovWrites = {}
    /\ dirs0 = dirs
    /\ files0 = files
    /\ sanIn = <<>>
    /\ sanOut = NoSan
    /\ rtIn = <<>>
    /\ rtOut = NoRoute

SpecBatch == InitBatch /\ [][Next]_vars

\* the scheduler keeps polling futures that can make progress, every request
\* and every file operation ends (with a result or an error), and the loop of
\* copy_overrides keeps running
FairSpec == Spec /\ WF_vars(InstallNext)

\* =================================================================== claims
\* entry i is copied by copy_overrides unless its destination exists
IsOverrideEntry(i) ==
    LET san == sanitize_zip_filename(entries[i])
    IN  /\ san.some
        /\ ~NotAnOverride(entries[i], Components(san.path), overrides)

\* the file the destination of entry i resolves to in the directories D
OverrideDest(i, D) ==
    Walk(<<>>, TargetPathComps(Components(entries[i]), overrides), D)

\* C1: every file copy_overrides creates or writes resolves to a descendant
\* of the target directory, whatever the archive's entry paths are.
C1_WritesStayInTarget ==
    \A w \in ovWrites : IsUnder(w.path, TargetPath)

\* C2: copy_overrides never creates, truncates or writes a file that exists
\* when the entry is reached: every step of the loop leaves every existing
\* file with its content, and counts an entry only when a new file appeared.
C2_ExistingFilesUntouched ==
    [][phase = "overrides" =>
         /\ \A p \in DOMAIN files : p \in DOMAIN files' /\ files'[p] = files[p]
         /\ ovCount' # ovCount => DOMAIN files' # DOMAIN files]_vars

Failures == {"NotFound", "DirErr", "CreateErr", "ReqwestErr", "WriteErr"}
Outcomes == {"Ok", "OkExisting"} \cup Failures

\* C4: whichever downloads fail, every resolved file is attempted and ends
\* with an outcome of its own, the download phase returns and copy_overrides
\* runs, and install_to returns an error only for the precondition, the
\* batch resolution or copy_overrides itself, never for a download.
C4_FailureIsolation ==
    /\ [](phase = "overrides" \/ (phase = "done" /\ resp = "ok") =>
            /\ DOMAIN tasks = 1..Len(infos)
            /\ \A j \in DOMAIN tasks :
                   tasks[j].pc = "done" /\ tasks[j].outcome \in Outcomes)
    /\ [](phase = "done" /\ result # "Ok" =>
            cause \in {"precondition", "resolve", "overrides", "sanitize"})
    /\ [](phase = "done" /\ cause = "none" => result = "Ok")
    /\ (phase = "download" ~> (phase = "done" /\ ovIdx >= 1))

\* install_to returned Ok after one download failed, another succeeded and
\* an override was copied
C4_Witness ==
    /\ phase = "done"
    /\ result = "Ok"
    /\ ovCount > 0
    /\ \E j, k \in DOMAIN tasks :
          tasks[j].outcome \in Failures \ {"NotFound"} /\ tasks[k].outcome = "Ok"

NoUrl == {j \in DOMAIN infos : infos[j].download_url = None}

\* what C5 says of a file without a download url besides its outcome: no GET
\* and no file handle for it, and a step of its task changes no file, no
\* other task and not the course of install_to
NoUrlTouchesNothing ==
    /\ [](\A j \in NoUrl \cap DOMAIN tasks :
            /\ j \notin gets
            /\ tasks[j].pc \in {"pending", "mkdir", "done"}
            /\ tasks[j].fh = <<>>)
    /\ [][\A j \in NoUrl \cap DOMAIN tasks :
            phase = "download" /\ tasks'[j] # tasks[j] =>
                /\ files' = files
                /\ gets' = gets
                /\ dlCreated' = dlCreated
                /\ phase' = phase
                /\ \A k \in DOMAIN tasks \ {j} : tasks'[k] = tasks[k]]_vars

\* C5 as stated: the outcome of a file without a download url is NotFound.
C5_NoUrlIsNotFound ==
    \A j \in NoUrl \cap DOMAIN tasks :
        tasks[j].pc = "done" => tasks[j].outcome = "NotFound"

\* C5, amended: a file without a download url ends with a failure of its
\* own, NotFound unless creating its subdirectory failed first; no GET is
\* sent and no file is created for it, and its task changes nothing the
\* other downloads depend on.
C5_NoUrlFailsAlone ==
    /\ [](\A j \in NoUrl \cap DOMAIN tasks :
            tasks[j].pc = "done" => tasks[j].outcome \in {"NotFound", "DirErr"})
    /\ NoUrlTouchesNothing

\* a file without a url ended NotFound next to a file that was downloaded
C5_Witness ==
    \E j, k \in DOMAIN tasks :
        /\ j \in NoUrl
        /\ tasks[j].outcome = "NotFound"
        /\ tasks[k].outcome = "Ok"
        /\ files[tasks[k].fh] = Body(infos[k].download_url)

\* the files a download of this run created and wrote completely
Downloaded == {tasks[j].fh : j \in {k \in DOMAIN tasks : tasks[k].outcome = "Ok"}}

\* the override entries whose destination is the file p
OverridesOf(p) ==
    {i \in 1..Len(entries) :
        /\ IsOverrideEntry(i)
        /\ OverrideDest(i, dirs).ok
        /\ OverrideDest(i, dirs).path = p}

\* C6: when an override's destination is a file downloaded earlier in the
\* same run, the file holds the override's content once install_to is done.
C6_OverrideSupersedes ==
    phase = "done" /\ result = "Ok" =>
        \A p \in Downloaded :
            OverridesOf(p) # {} => \E i \in OverridesOf(p) : files[p] = EntryData(i)

\* what a run that failed before the download phase must not have done
NothingDone ==
    /\ tasks = <<>>
    /\ gets = {}
    /\ dlCreated = {}
    /\ ovIdx = 0
    /\ ovCount = 0
    /\ ovWrites = {}
    /\ dirs = dirs0
    /\ files = files0

\* C7: when the target is no directory install_to returns an error at once:
\* no batch request is sent, no download starts, no override is copied and
\* the file system is as it was.
C7_TargetPrecondition ==
    (TargetPath \notin dirs0 /\ phase # "init") =>
        /\ phase = "done"
        /\ result = "Err"
        /\ cause = "precondition"
        /\ batchReqs = 0
    /\ batchBody = NoBody
        /\ resp = "none"
        /\ NothingDone

\* install_to has returned because the target is a regular file
C7_Witness ==
    /\ phase = "done"
    /\ cause = "precondition"
    /\ TargetPath \in DOMAIN files

\* C8: when the batch request fails, has no success status, is no JSON or
\* has no or malformed data, install_to returns an error and has started no
\* download, created nothing and copied no override.
C8_ResolveFailureIsFatal ==
    resp \notin {"none", "ok"} =>
        /\ phase = "done"
        /\ result = "Err"
        /\ cause = "resolve"
        /\ NothingDone

\* install_to has returned because the response held no data, with files to
\* resolve and overrides to copy
C8_Witness ==
    /\ resp = "NoData"
    /\ phase = "done"
    /\ infos # <<>>
    /\ \E i \in 1..Len(entries) : IsOverrideEntry(i)

\* the entries whose name sanitize_zip_filename rejects
BadEntries == {i \in 1..Len(entries) : ~sanitize_zip_filename(entries[i]).some}

\* C9: copy_overrides never gets past an entry whose name fails
\* sanitization: it aborts there with a panic, no entry after it is written,
\* and install_to does not return Ok.
C9_InvalidNameAborts ==
    \A b \in BadEntries :
        /\ ovIdx <= b
        /\ \A w \in ovWrites : w.idx < b
        /\ result # "Ok"
        /\ (phase = "done" /\ ovIdx = b /\ cause # "overrides") =>
               result = "Panic" /\ cause = "sanitize"

\* copy_overrides panicked at a bad entry after it had copied an override
C9_Witness ==
    /\ phase = "done"
    /\ result = "Panic"
    /\ ovIdx \in BadEntries
    /\ \E w \in ovWrites : w.idx < ovIdx

\* the number of components of kind k among the first n of comps
CountKind(comps, k, n) == Cardinality({i \in 1..n : comps[i].kind = k})

\* what C10 says sanitize_zip_filename rejects
MustReject(name) ==
    LET comps == Components(name)
    IN  \/ Contains(name, "NUL")
        \/ \E i \in 1..Len(comps) : comps[i].kind \in {"RootDir", "Prefix"}
        \/ \E n \in 1..Len(comps) :
              CountKind(comps, "ParentDir", n) > CountKind(comps, "Normal", n)

\* C10: sanitize_zip_filename returns None exactly for the names with a NUL,
\* with a root component, or in which some prefix of the components holds
\* more parent references than normal components.
C10_RejectsExactly ==
    sanOut.called => (sanOut.some <=> ~MustReject(sanIn))

\* a name that goes above its root after descending was rejected: a/../..
C10_Witness ==
    /\ sanOut.called
    /\ sanIn = <<"a", "/", ".", ".", "/", ".", ".">>
    /\ ~sanOut.some

\* the components left when "." is dropped and every ".." takes back the
\* normal component before it
RECURSIVE NormalizeAcc(_, _)
NormalizeAcc(comps, acc) ==
    IF comps = <<>> THEN acc
    ELSE LET c == Head(comps)
         IN  CASE c.kind = "CurDir" -> NormalizeAcc(Tail(comps), acc)
               [] c.kind = "ParentDir" /\ acc # <<>> /\ Last(acc).kind = "Normal" ->
                      NormalizeAcc(Tail(comps), Front(acc))
               [] OTHER -> NormalizeAcc(Tail(comps), Append(acc, c))

Normalized(comps) == NormalizeAcc(comps, <<>>)

\* C11: the path sanitize_zip_filename returns on success is the normalized
\* path: it compares equal, component by component, to the file name with
\* its "." and ".." components resolved away; a rejection carries no path.
C11_ReturnsNormalized ==
    sanOut.called =>
        IF sanOut.some
        THEN Components(sanOut.path) = Normalized(Components(sanIn))
        ELSE sanOut.path = <<>>

\* C12: the file goes under resourcepacks exactly when its name ends in
\* ".zip", and under mods for every other name.
C12_RoutesByZipExtension ==
    rtOut.called =>
        LET sub == IF EndsWith(rtIn, <<".", "z", "i", "p">>)
                   THEN ResourcePacks ELSE Mods
        IN  /\ rtOut.parent_folder = sub
            /\ StartsWith(rtOut.path, TargetComps \o <<NormalC(sub)>>)

\* the characters of name that are none of \ / : * ? " < > |, in order
RECURSIVE Kept(_)
Kept(name) ==
    IF name = <<>> THEN <<>>
    ELSE IF Head(name) \in {"\\", "/", ":", "*", "?", "\"", "<", ">", "|"}
         THEN Kept(Tail(name))
         ELSE <<Head(name)>> \o Kept(Tail(name))

\* C13: the file name on disk is the resolved name without its illegal
\* characters, the others kept in order, and the destination is the direct
\* child of that name in the chosen subdirectory.
C13_StrippedNameIsDirectChild ==
    rtOut.called =>
        /\ rtOut.file_name = Kept(rtIn)
        /\ rtOut.path = TargetComps \o <<NormalC(rtOut.parent_folder),
                                         NormalC(rtOut.file_name)>>

\* C14: a run of install_to that passes the target precondition sends
\* exactly one batch request, whatever the number of files of the manifest,
\* and its body holds every file id of the manifest in manifest order; a
\* run never sends a second one.
C14_OneBatchRequest ==
    /\ batchReqs <= 1
    /\ batchReqs = 0 => ~batchBody.sent
    /\ (phase # "init" /\ cause # "precondition") =>
          /\ batchReqs = 1
          /\ batchBody.sent
          /\ Len(batchBody.fileIds) = Len(manifestFiles)
          /\ \A j \in 1..Len(manifestFiles) :
                 batchBody.fileIds[j] = manifestFiles[j].file_id

\* a run is over for a manifest of three files that are not in the order of
\* their ids
C14_Witness ==
    /\ phase = "done"
    /\ result = "Ok"
    /\ batchReqs = 1
    /\ manifestFiles = <<CurseFile(2), CurseFile(1), CurseFile(2)>>
    /\ batchBody.fileIds = <<2, 1, 2>>

\* C15: at every point of the download phase at most num_cpus downloads are
\* in flight, however many files were resolved, and a download starts only
\* from a state with fewer than num_cpus in flight.
C15_InFlightCapped ==
    /\ [](Cardinality(InFlight) <= NumCpus)
    /\ [][\A j \in DOMAIN tasks :
            (j \in DOMAIN tasks' /\ tasks[j].pc = "pending"
                                 /\ tasks'[j].pc # "pending") =>
                Cardinality(InFlight) < NumCpus]_vars

\* num_cpus downloads are in flight and a resolved file waits for its turn
C15_Witness ==
    /\ phase = "download"
    /\ Cardinality(InFlight) = NumCpus
    /\ \E j \in DOMAIN tasks : tasks[j].pc = "pending"

\* C16: copy_overrides starts only when every resolved file has an outcome;
\* while a download is pending or in flight no entry has been read or
\* written; the entries are taken one at a time in index order, each write
\* being for the entry the loop is at, and no download moves meanwhile.
C16_OverridesAfterDownloads ==
    /\ [](phase = "overrides" \/ ovIdx >= 1 \/ ovWrites # {} =>
             \A j \in DOMAIN tasks :
                 tasks[j].pc = "done" /\ tasks[j].outcome \in Outcomes)
    /\ [](phase \in {"init", "resolve", "download"} =>
             ovIdx = 0 /\ ovCount = 0 /\ ovWrites = {})
    /\ [][phase = "overrides" =>
             /\ tasks' = tasks
             /\ ovIdx' \in {ovIdx, ovIdx + 1}
             /\ \A w \in ovWrites' \ ovWrites : w.idx = ovIdx
             /\ \A w \in ovWrites : w.idx < ovIdx]_vars

\* the loop has written the second and the third entry of the archive after
\* a download that succeeded and one that failed
C16_Witness ==
    /\ phase = "overrides"
    /\ \E w, v \in ovWrites : w.idx = 2 /\ v.idx = 3
    /\ \E j, k \in DOMAIN tasks :
          tasks[j].outcome = "Ok" /\ tasks[k].outcome \in Failures

\* C17: when two downloads of one run have the same destination and both
\* return Ok, the file holds the complete body of one of the two, never a
\* mixture of both, once both are done.
C17_LastWriterWins ==
    \A j, k \in DOMAIN tasks :
        (/\ j # k
         /\ tasks[j].outcome = "Ok"
         /\ tasks[k].outcome = "Ok"
         /\ tasks[j].fh = tasks[k].fh) =>
            files[tasks[j].fh] \in {Body(infos[j].download_url),
                                    Body(infos[k].download_url)}

\* what C18 calls a directory entry, and an entry under the overrides folder
\* as a whole path component
IsDirEntry(name) == EndsWith(name, <<"/">>) \/ EndsWith(name, <<"\\">>)

UnderOverrides(name) ==
    LET comps == Components(name)
        ov == Components(overrides)
    IN  Len(comps) >= Len(ov) /\ \A k \in 1..Len(ov) : comps[k] = ov[k]

\* the file that the target joined with the entry's path without the
\* overrides folder names, its "." and ".." resolved
StrippedDest(name) ==
    LET comps == Components(name)
        rest == SubSeq(comps, Len(Components(overrides)) + 1, Len(comps))
        norm == Normalized(TargetComps \o rest)
    IN  [k \in 1..Len(norm) |-> norm[k].name]

\* C18: an entry the loop gets past is written exactly when it is no
\* directory, lies under the overrides folder and its destination does not
\* exist yet; it is then written, with the entry's content, to the target
\* joined with its path without the overrides folder and counted; any other
\* entry changes no file and no count; the count reported at the end is the
\* number of files written.
C18_WritesExactlyOverrides ==
    /\ [][(phase = "overrides" /\ ovIdx <= Len(entries) /\ ovIdx' = ovIdx + 1) =>
            LET name == entries[ovIdx]
                dest == StrippedDest(name)
                written == ovWrites' # ovWrites
            IN  /\ written <=> /\ ~IsDirEntry(name)
                               /\ UnderOverrides(name)
                               /\ dest \notin DOMAIN files
                               /\ dest \notin dirs
                /\ written =>
                      /\ ovWrites' = ovWrites \cup {[idx |-> ovIdx, path |-> dest]}
                      /\ dest \in DOMAIN files'
                      /\ files'[dest] = EntryData(ovIdx)
                      /\ ovCount' = ovCount + 1
                /\ ~written => files' = files /\ ovCount' = ovCount]_vars
    /\ [](phase = "done" /\ result = "Ok" => ovCount = Cardinality(ovWrites))

\* the destination file of the resolved file j
DestFile(j) ==
    LET comps == DestComps(infos[j]) IN [k \in 1..Len(comps) |-> comps[k].name]

\* C19: once the download of a resolved file has ended, in failure or not,
\* its destination file exists only with the complete body of the file; a
\* run never takes a destination without the complete body for installed.
C19_NoFileAfterFailure ==
    \A j \in DOMAIN tasks :
        (tasks[j].pc = "done" /\ DestFile(j) \in DOMAIN files) =>
            files[DestFile(j)] = Body(infos[j].download_url)

====
